---- MODULE Spec2Model ----
(***************************************************************************)
(* chop_reads: AlignmentChopper (src/src/alignment_chopper.rs).            *)
(*                                                                         *)
(* One AlignmentChopper is constructed with a configuration and then       *)
(* chop_read is called on alignment records.  chop_read walks the CIGAR    *)
(* of the record, splits operations at chunk boundaries (consume_cigar)    *)
(* and pushes one new record per chunk into rec_pieces_buffer              *)
(* (add_chunk_record).  The model follows chop_read statement by           *)
(* statement; pc names the place in chop_read the call has reached.        *)
(***************************************************************************)
EXTENDS Integers, Sequences

\* ------------------------------------------------------------------ bounds
\* at most MaxOps operations in an input CIGAR
MaxOps == 2
\* every input CIGAR operation has a length in 1..MaxLen
MaxLen == 2
\* chunk_size and min_length are drawn from 0..MaxChunk
MaxChunk == 2
\* at most MaxCalls calls of chop_read on one chopper (SpecReuse)
MaxCalls == 2

\* with chunk_size = 0 the loop that places a remainder never ends: it is
\* followed until MaxSpin records are pushed
MaxSpin == 3
\* the length of the one long read among the inputs, which is cut into more
\* than ten chunks
LongLen == 11
\* the positions of the scenario record are 0..MaxPos
MaxPos == 15

VARIABLES
    chopper,   \* the AlignmentChopper struct (lines 5-12)
    rec,       \* the record chop_read was called with
    frame,     \* the local variables of chop_read (lines 149-171)
    pc,        \* the place chop_read has reached
    calls      \* how many times chop_read has been called on this chopper

vars == <<chopper, rec, frame, pc, calls>>

\* ------------------------------------------------------------ data model
Min(a, b) == IF a < b THEN a ELSE b

\* rust_htslib::bam::record::Cigar: the nine kinds matched by consume_cigar
CigarKinds ==
    {"Match", "Ins", "Del", "RefSkip", "SoftClip", "HardClip", "Pad", "Equal", "Diff"}

Cigar(k, n) == [op |-> k, len |-> n]

\* SplitCigarBuf::new
SplitCigarBuf(left_c, right_c, query_offset, ref_offset) ==
    [left_c |-> left_c, right_c |-> right_c,
     query_offset |-> query_offset, ref_offset |-> ref_offset]

\* Option<T> is modelled as a sequence of at most one T: <<>> is None
Some(c) == <<c>>

\* consume_cigar, mutated: an Ins is never split
ConsumeCigarInsWhole(c, amount) ==
    CASE c.op \in {"Match", "Equal", "Diff"} ->
            IF amount < c.len
            THEN SplitCigarBuf(Cigar(c.op, amount), Some(Cigar(c.op, c.len - amount)), amount, amount)
            ELSE SplitCigarBuf(Cigar(c.op, c.len), <<>>, c.len, c.len)
      [] c.op = "SoftClip" ->
            IF amount < c.len
            THEN SplitCigarBuf(Cigar(c.op, amount), Some(Cigar(c.op, c.len - amount)), amount, 0)
            ELSE SplitCigarBuf(Cigar(c.op, c.len), <<>>, c.len, 0)
      [] c.op = "Ins" -> SplitCigarBuf(Cigar(c.op, c.len), <<>>, c.len, 0)
      [] c.op \in {"Del", "RefSkip"} -> SplitCigarBuf(Cigar(c.op, c.len), <<>>, 0, c.len)
      [] OTHER -> SplitCigarBuf(Cigar(c.op, c.len), <<>>, 0, 0)

\* consume_cigar, mutated: a Del consumes no reference
ConsumeCigarDelNoRef(c, amount) ==
    CASE c.op \in {"Match", "Equal", "Diff"} ->
            IF amount < c.len
            THEN SplitCigarBuf(Cigar(c.op, amount), Some(Cigar(c.op, c.len - amount)), amount, amount)
            ELSE SplitCigarBuf(Cigar(c.op, c.len), <<>>, c.len, c.len)
      [] c.op \in {"Ins", "SoftClip"} ->
            IF amount < c.len
            THEN SplitCigarBuf(Cigar(c.op, amount), Some(Cigar(c.op, c.len - amount)), amount, 0)
            ELSE SplitCigarBuf(Cigar(c.op, c.len), <<>>, c.len, 0)
      [] c.op = "RefSkip" -> SplitCigarBuf(Cigar(c.op, c.len), <<>>, 0, c.len)
      [] OTHER -> SplitCigarBuf(Cigar(c.op, c.len), <<>>, 0, 0)

\* consume_cigar, mutated: the right part of a split Match is one base short
ConsumeCigarShortRight(c, amount) ==
    CASE c.op = "Match" ->
            IF amount < c.len
            THEN SplitCigarBuf(Cigar(c.op, amount),
                               IF c.len - amount > 1
                               THEN Some(Cigar(c.op, c.len - amount - 1)) ELSE <<>>,
                               amount, amount)
            ELSE SplitCigarBuf(Cigar(c.op, c.len), <<>>, c.len, c.len)
      [] c.op \in {"Equal", "Diff"} ->
            IF amount < c.len
            THEN SplitCigarBuf(Cigar(c.op, amount), Some(Cigar(c.op, c.len - amount)), amount, amount)
            ELSE SplitCigarBuf(Cigar(c.op, c.len), <<>>, c.len, c.len)
      [] c.op \in {"Ins", "SoftClip"} ->
            IF amount < c.len
            THEN SplitCigarBuf(Cigar(c.op, amount), Some(Cigar(c.op, c.len - amount)), amount, 0)
            ELSE SplitCigarBuf(Cigar(c.op, c.len), <<>>, c.len, 0)
      [] c.op \in {"Del", "RefSkip"} -> SplitCigarBuf(Cigar(c.op, c.len), <<>>, 0, c.len)
      [] OTHER -> SplitCigarBuf(Cigar(c.op, c.len), <<>>, 0, 0)

\* consume_cigar, mutated: an operation as long as the amount is split too,
\* into the whole operation and a remainder of length 0
ConsumeCigarSplitAtEqual(c, amount) ==
    CASE c.op \in {"Match", "Equal", "Diff"} ->
            IF amount <= c.len
            THEN SplitCigarBuf(Cigar(c.op, amount), Some(Cigar(c.op, c.len - amount)), amount, amount)
            ELSE SplitCigarBuf(Cigar(c.op, c.len), <<>>, c.len, c.len)
      [] c.op \in {"Ins", "SoftClip"} ->
            IF amount <= c.len
            THEN SplitCigarBuf(Cigar(c.op, amount), Some(Cigar(c.op, c.len - amount)), amount, 0)
            ELSE SplitCigarBuf(Cigar(c.op, c.len), <<>>, c.len, 0)
      [] c.op \in {"Del", "RefSkip"} -> SplitCigarBuf(Cigar(c.op, c.len), <<>>, 0, c.len)
      [] OTHER -> SplitCigarBuf(Cigar(c.op, c.len), <<>>, 0, 0)

\* consume_cigar, mutated: a SoftClip is never split
ConsumeCigarSoftClipWhole(c, amount) ==
    CASE c.op \in {"Match", "Equal", "Diff"} ->
            IF amount < c.len
            THEN SplitCigarBuf(Cigar(c.op, amount), Some(Cigar(c.op, c.len - amount)), amount, amount)
            ELSE SplitCigarBuf(Cigar(c.op, c.len), <<>>, c.len, c.len)
      [] c.op = "Ins" ->
            IF amount < c.len
            THEN SplitCigarBuf(Cigar(c.op, amount), Some(Cigar(c.op, c.len - amount)), amount, 0)
            ELSE SplitCigarBuf(Cigar(c.op, c.len), <<>>, c.len, 0)
      [] c.op = "SoftClip" -> SplitCigarBuf(Cigar(c.op, c.len), <<>>, c.len, 0)
      [] c.op \in {"Del", "RefSkip"} -> SplitCigarBuf(Cigar(c.op, c.len), <<>>, 0, c.len)
      [] OTHER -> SplitCigarBuf(Cigar(c.op, c.len), <<>>, 0, 0)

\* AlignmentChopper::consume_cigar (lines 89-144)
ConsumeCigar(c, amount) ==
    CASE c.op = "Match" ->
            IF amount < c.len
            THEN SplitCigarBuf(Cigar("Match", amount), Some(Cigar("Match", c.len - amount)), amount, amount)
            ELSE SplitCigarBuf(Cigar("Match", c.len), <<>>, c.len, c.len)
      [] c.op = "Ins" ->
            IF amount < c.len
            THEN SplitCigarBuf(Cigar("Ins", amount), Some(Cigar("Ins", c.len - amount)), amount, 0)
            ELSE SplitCigarBuf(Cigar("Ins", c.len), <<>>, c.len, 0)
      [] c.op = "Del" -> SplitCigarBuf(Cigar("Del", c.len), <<>>, 0, c.len)
      [] c.op = "RefSkip" -> SplitCigarBuf(Cigar("RefSkip", c.len), <<>>, 0, c.len)
      [] c.op = "SoftClip" ->
            IF amount < c.len
            THEN SplitCigarBuf(Cigar("SoftClip", amount), Some(Cigar("SoftClip", c.len - amount)), amount, 0)
            ELSE SplitCigarBuf(Cigar("SoftClip", c.len), <<>>, c.len, 0)
      [] c.op = "HardClip" -> SplitCigarBuf(Cigar("HardClip", c.len), <<>>, 0, 0)
      [] c.op = "Pad" -> SplitCigarBuf(Cigar("Pad", c.len), <<>>, 0, 0)
      [] c.op = "Equal" ->
            IF amount < c.len
            THEN SplitCigarBuf(Cigar("Equal", amount), Some(Cigar("Equal", c.len - amount)), amount, amount)
            ELSE SplitCigarBuf(Cigar("Equal", c.len), <<>>, c.len, c.len)
      [] c.op = "Diff" ->
            IF amount < c.len
            THEN SplitCigarBuf(Cigar("Diff", amount), Some(Cigar("Diff", c.len - amount)), amount, amount)
            ELSE SplitCigarBuf(Cigar("Diff", c.len), <<>>, c.len, c.len)

\* ---------------------------------------------------------------- records
Digit == <<"0", "1", "2", "3", "4", "5", "6", "7", "8", "9">>

\* usize::to_string (line 64): decimal, most significant digit first, no padding
RECURSIVE to_string(_)
to_string(n) ==
    IF n < 10 THEN <<Digit[n + 1]>>
    ELSE to_string(n \div 10) \o <<Digit[(n % 10) + 1]>>

\* chunk_num (line 55), mutated: counted from one
ChunkNumFromOne(ch) == Len(ch.rec_pieces_buffer) + 1

\* chunk_num (line 55): the number of records already pushed
ChunkNum(ch) == Len(ch.rec_pieces_buffer)

\* the slice v[from..to] of a Rust slice (0-based, end exclusive)
Slice(v, from, to) == SubSeq(v, from + 1, to)

\* add_chunk_record panics (lines 58, 60-61): the subtraction at line 58
\* underflows (a panic in a debug build; in a release build slice_end wraps to
\* a value above seq_len and the slice at line 60 panics), or the slice
\* start is above the slice end
AddChunkRecordPanics(ch, original_rec, query_offset, trailing_clipped_bases, last) ==
    LET slice_end0 == Min(Len(original_rec.seq), query_offset + ch.chunk_size)
    IN  \/ last /\ trailing_clipped_bases > slice_end0
        \/ query_offset >
             (IF last THEN slice_end0 - trailing_clipped_bases ELSE slice_end0)

\* AlignmentChopper::add_chunk_record (lines 51-87), when it does not panic:
\* the chopper with the new record pushed
AddChunkRecord(ch, original_rec, new_cigar, ref_offset, query_offset, trailing_clipped_bases, last) ==
    LET slice_end0 == Min(Len(original_rec.seq), query_offset + ch.chunk_size)
        slice_end  == IF last THEN slice_end0 - trailing_clipped_bases ELSE slice_end0
        new_rec ==
            [qname |-> original_rec.qname \o <<"-">> \o to_string(ChunkNum(ch)),
             cigar |-> new_cigar,
             seq   |-> Slice(original_rec.seq, query_offset, slice_end),
             qual  |-> Slice(original_rec.qual, query_offset, slice_end),
             pos   |-> original_rec.pos + ref_offset,
             flags |-> original_rec.flags,
             tid   |-> original_rec.tid,
             mapq  |-> original_rec.mapq,
             mtid  |-> original_rec.mtid,
             mpos  |-> original_rec.mpos,
             insert_size |-> original_rec.insert_size,
             aux   |-> IF ch.read_group = <<>> THEN <<>>
                       ELSE <<[tag |-> "RG", value |-> ch.read_group[1]]>>]
    IN  [ch EXCEPT !.rec_pieces_buffer = Append(@, new_rec)]

\* AlignmentChopper::new (lines 34-43)
New(chunk_size, min_length, skip_clipped_bases, read_group) ==
    [chunk_size |-> chunk_size,
     min_length |-> min_length,
     skip_clipped_bases |-> skip_clipped_bases,
     read_group |-> read_group,
     cigar_buffer |-> <<>>,
     rec_pieces_buffer |-> <<>>]

\* reset, mutated: the records of the previous call are kept
ResetKeepsPieces(ch) == [ch EXCEPT !.cigar_buffer = <<>>]

\* AlignmentChopper::reset (lines 45-49)
Reset(ch) == [ch EXCEPT !.cigar_buffer = <<>>, !.rec_pieces_buffer = <<>>]

\* Record::new() (main.rs line 75): the record before anything is read into it
EmptyRecord ==
    [qname |-> <<>>, cigar |-> <<>>, seq |-> <<>>, qual |-> <<>>, pos |-> 0,
     flags |-> 0, tid |-> 0, mapq |-> 0, mtid |-> 0, mpos |-> 0,
     insert_size |-> 0, aux |-> <<>>]

\* --------------------------------------------------------------- chop_read
\* The state of one chopper at work: m = [chopper, rec, frame, pc].
\* pc: "new"  constructed, chop_read not yet called
\*     "first" at line 171, the clips trimmed from the end
\*     "first_while" at the loop of lines 200-217
\*     "for" at the loop head of line 222
\*     "for_while" at the loop of lines 245-262
\*     "done" chop_read has returned (line 271)
\*     "panic" add_chunk_record has panicked

IsClip(c) == c.op \in {"SoftClip", "HardClip"}

\* the locals of chop_read as declared at lines 149-161
NewFrame(r) ==
    [global_ref_offset |-> 0,
     global_query_offset |-> 0,
     cigar_string |-> <<>>,
     local_ref_consumed |-> 0,
     local_query_consumed |-> 0,
     cigar_consumption |-> <<>>,
     current_cigar |-> r.cigar,
     trailing_clipped_bases |-> 0,
     cigar_iter |-> 0]

\* lines 160-169: the loop that trims clips from the end of the CIGAR
RECURSIVE TrimTrailing(_, _)
TrimTrailing(f, skip_clipped_bases) ==
    LET n == Len(f.current_cigar)
    IN  IF n > 0 /\ skip_clipped_bases /\ IsClip(f.current_cigar[n])
        THEN TrimTrailing(
                [f EXCEPT !.trailing_clipped_bases = @ + f.current_cigar[n].len,
                          !.current_cigar = SubSeq(f.current_cigar, 1, n - 1)],
                skip_clipped_bases)
        ELSE f

\* lines 146-171: chop_read is entered with record r
EnterChopRead(ch, r) ==
    [chopper |-> Reset(ch), rec |-> r,
     frame |-> TrimTrailing(NewFrame(r), ch.skip_clipped_bases), pc |-> "first"]

\* lines 223-226 (and 179-181, 214-216): consume c against the room left in
\* the chunk and add the left part to the chunk under construction
ConsumeInto(m, c) ==
    LET f == m.frame
        cc == ConsumeCigar(c, m.chopper.chunk_size - f.local_query_consumed)
    IN  [m EXCEPT !.frame.cigar_consumption = <<cc>>,
                  !.frame.cigar_string = Append(@, cc.left_c),
                  !.frame.local_ref_consumed = @ + cc.ref_offset,
                  !.frame.local_query_consumed = @ + cc.query_offset]

\* lines 232-241 (and 187-196, 202-211, 247-256): push the chunk, move the
\* global offsets, restart the consumption cycle; next is the place to go on
PushChunk(m, next) ==
    LET f == m.frame
    IN  IF AddChunkRecordPanics(m.chopper, m.rec, f.global_query_offset,
                                f.trailing_clipped_bases, FALSE)
        THEN [m EXCEPT !.pc = "panic"]
        ELSE [m EXCEPT
                !.chopper = AddChunkRecord(m.chopper, m.rec, f.cigar_string,
                                f.global_ref_offset, f.global_query_offset,
                                f.trailing_clipped_bases, FALSE),
                !.frame.global_ref_offset = @ + f.local_ref_consumed,
                !.frame.global_query_offset = @ + f.local_query_consumed,
                !.frame.cigar_string = <<>>,
                !.frame.local_ref_consumed = 0,
                !.frame.local_query_consumed = 0,
                !.pc = next]

\* lines 228-243 (and 183-198): after a token was consumed
AfterConsume(m, while_pc) ==
    IF m.frame.cigar_consumption[1].right_c = <<>>
    THEN IF m.frame.local_query_consumed = m.chopper.chunk_size
         THEN PushChunk(m, "for")
         ELSE [m EXCEPT !.pc = "for"]
    ELSE [m EXCEPT !.pc = while_pc]

\* lines 171-220: the first token of the trimmed CIGAR
FirstToken(m) ==
    LET f == m.frame
    IN  IF f.current_cigar = <<>>
        THEN [m EXCEPT !.pc = "for"]
        ELSE LET c  == f.current_cigar[1]
                 cc == ConsumeCigar(c, m.chopper.chunk_size - f.local_query_consumed)
                 m1 == [m EXCEPT !.frame.cigar_iter = 1]
             IN  IF m.chopper.skip_clipped_bases /\ IsClip(cc.left_c)
                 THEN [m1 EXCEPT !.frame.cigar_consumption = <<cc>>,
                                 !.frame.global_query_offset = @ + cc.query_offset,
                                 !.pc = "for"]
                 ELSE AfterConsume(ConsumeInto(m1, c), "first_while")

\* lines 222-243: the next token of the for loop
NextToken(m) ==
    LET f == m.frame
        c == f.current_cigar[f.cigar_iter + 1]
    IN  AfterConsume(ConsumeInto([m EXCEPT !.frame.cigar_iter = @ + 1], c), "for_while")

\* lines 245-262 (and 200-217): one pass of the loop that places the
\* remainder of a split token
PlaceRemainder(m) ==
    LET c_buf == m.frame.cigar_consumption[1].right_c[1]
        m1 == PushChunk(m, m.pc)
    IN  IF m1.pc = "panic" THEN m1
        ELSE LET m2 == ConsumeInto(m1, c_buf)
             IN  IF m2.frame.cigar_consumption[1].right_c = <<>>
                 THEN [m2 EXCEPT !.pc = "for"]
                 ELSE m2

\* line 267: the min length requirement for the last chunk
KeepsLastChunk(local_query_consumed, min_length) == local_query_consumed >= min_length

\* lines 266-271: the last chunk, and the return
LastChunk(m) ==
    LET f == m.frame
    IN  IF KeepsLastChunk(f.local_query_consumed, m.chopper.min_length)
        THEN IF AddChunkRecordPanics(m.chopper, m.rec, f.global_query_offset,
                                     f.trailing_clipped_bases, TRUE)
             THEN [m EXCEPT !.pc = "panic"]
             ELSE [m EXCEPT
                     !.chopper = AddChunkRecord(m.chopper, m.rec, f.cigar_string,
                                     f.global_ref_offset, f.global_query_offset,
                                     f.trailing_clipped_bases, TRUE),
                     !.pc = "done"]
        ELSE [m EXCEPT !.pc = "done"]

\* ------------------------------------------------------------------ inputs
\* the CIGAR operations a record can hold
CigarOps == {Cigar(k, n) : k \in CigarKinds, n \in 1..MaxLen}

\* the CIGAR strings of at most n operations
RECURSIVE CigarStrings(_)
CigarStrings(n) ==
    IF n = 0 THEN {<<>>}
    ELSE LET shorter == CigarStrings(n - 1)
         IN  shorter \cup {Append(cs, c) : cs \in {x \in shorter : Len(x) = n - 1}, c \in CigarOps}

ConsumesQuery(c) == c.op \in {"Match", "Ins", "SoftClip", "Equal", "Diff"}
ConsumesReference(c) == c.op \in {"Match", "Del", "RefSkip", "Equal", "Diff"}

\* the number of read bases a CIGAR covers
RECURSIVE QueryLen(_)
QueryLen(cs) ==
    IF cs = <<>> THEN 0
    ELSE (IF ConsumesQuery(cs[1]) THEN cs[1].len ELSE 0) + QueryLen(Tail(cs))

\* the number of reference bases a CIGAR covers
RECURSIVE ReferenceLen(_)
ReferenceLen(cs) ==
    IF cs = <<>> THEN 0
    ELSE (IF ConsumesReference(cs[1]) THEN cs[1].len ELSE 0) + ReferenceLen(Tail(cs))

\* make_record (lines 283-291) for a CIGAR and a sequence length: base i of
\* the read is written i, its quality -i, so that a slice shows where it was
\* cut from
MakeRecord(cigar, seq_len) ==
    [qname |-> <<"r", "-", "7">>,
     cigar |-> cigar,
     seq   |-> [i \in 1..seq_len |-> i],
     qual  |-> [i \in 1..seq_len |-> -i],
     pos   |-> 100,
     flags |-> 0, tid |-> 1, mapq |-> 60, mtid |-> -1, mpos |-> -1,
     insert_size |-> 0, aux |-> <<>>]

\* well-formed records: the sequence is as long as the CIGAR says
Records ==
    {MakeRecord(cs, QueryLen(cs)) :
        cs \in CigarStrings(MaxOps) \cup {<<Cigar("Match", LongLen)>>}}

\* a few records for the runs that call chop_read more than once
FewRecords ==
    {MakeRecord(cs, QueryLen(cs)) : cs \in
        {<<>>,
         <<Cigar("Match", MaxLen)>>,
         <<Cigar("SoftClip", 1), Cigar("Match", MaxLen)>>,
         <<Cigar("Ins", 1), Cigar("Del", 1)>>,
         <<Cigar("Equal", MaxLen), Cigar("HardClip", 1)>>}}

\* records whose sequence is one base shorter or one base longer than the
\* CIGAR says: Record::set (lines 283-291 in the tests, the BAM reader in
\* main.rs line 78) does not compare the two
IllFormedRecords ==
    {MakeRecord(p[1], QueryLen(p[1]) + p[2]) :
        p \in {q \in CigarStrings(MaxOps) \X {-1, 1} : QueryLen(q[1]) + q[2] >= 0}}

\* the record of tests::simple_test (lines 298-299): CIGAR 4M 5D 2M 4I 3S,
\* sequence AGTCGATGCATGC, at a position P
ScenarioCigar ==
    <<Cigar("Match", 4), Cigar("Del", 5), Cigar("Match", 2), Cigar("Ins", 4),
      Cigar("SoftClip", 3)>>

ScenarioSeq == <<"A", "G", "T", "C", "G", "A", "T", "G", "C", "A", "T", "G", "C">>

ScenarioQual == <<"?", "!", "/", "?", "?", "5", "0", "(", "?", "/", "3", "2", "1">>

ScenarioRecord(P) ==
    [MakeRecord(ScenarioCigar, Len(ScenarioSeq)) EXCEPT
        !.seq = ScenarioSeq, !.qual = ScenarioQual, !.pos = P]

ScenarioRecords == {ScenarioRecord(P) : P \in 0..MaxPos}

\* ----------------------------------------------------------- state machine
M == [chopper |-> chopper, rec |-> rec, frame |-> frame, pc |-> pc]

Becomes(m) ==
    /\ chopper' = m.chopper
    /\ rec' = m.rec
    /\ frame' = m.frame
    /\ pc' = m.pc

\* after AlignmentChopper::new (main.rs line 73): any u32 chunk_size and
\* min_length, either flag
Init ==
    /\ \E chunk_size \in 0..MaxChunk, min_length \in 0..MaxChunk,
          skip_clipped_bases \in BOOLEAN :
          chopper = New(chunk_size, min_length, skip_clipped_bases, <<>>)
    /\ rec = EmptyRecord
    /\ frame = NewFrame(EmptyRecord)
    /\ pc = "new"
    /\ calls = 0

\* the same, with or without a read group
InitReuse ==
    /\ \E chunk_size \in 0..MaxChunk, min_length \in 0..MaxChunk,
          skip_clipped_bases \in BOOLEAN, read_group \in {<<>>, <<"grp">>} :
          chopper = New(chunk_size, min_length, skip_clipped_bases, read_group)
    /\ rec = EmptyRecord
    /\ frame = NewFrame(EmptyRecord)
    /\ pc = "new"
    /\ calls = 0

\* chop_read is called for the first time (main.rs line 78)
ChopRead(records) ==
    /\ pc = "new"
    /\ \E r \in records : Becomes(EnterChopRead(chopper, r))
    /\ calls' = 1

\* chop_read is called again on the same chopper (main.rs lines 76-81)
ChopReadAgain(records) ==
    /\ pc = "done"
    /\ calls < MaxCalls
    /\ \E r \in records : Becomes(EnterChopRead(chopper, r))
    /\ calls' = calls + 1

First ==
    /\ pc = "first"
    /\ Becomes(FirstToken(M))
    /\ UNCHANGED calls

For ==
    /\ pc = "for"
    /\ frame.cigar_iter < Len(frame.current_cigar)
    /\ Becomes(NextToken(M))
    /\ UNCHANGED calls

While ==
    /\ pc \in {"first_while", "for_while"}
    /\ chopper.chunk_size = 0 => Len(chopper.rec_pieces_buffer) < MaxSpin
    /\ Becomes(PlaceRemainder(M))
    /\ UNCHANGED calls

Last ==
    /\ pc = "for"
    /\ frame.cigar_iter >= Len(frame.current_cigar)
    /\ Becomes(LastChunk(M))
    /\ UNCHANGED calls

Step == First \/ For \/ While \/ Last

Next == ChopRead(Records) \/ Step

Spec == Init /\ [][Next]_vars

NextReuse == ChopRead(FewRecords) \/ ChopReadAgain(FewRecords) \/ Step

SpecReuse == InitReuse /\ [][NextReuse]_vars

\* tests::simple_test (line 295): AlignmentChopper::new(5, 5, false, None)
InitScenario ==
    /\ chopper = New(5, 5, FALSE, <<>>)
    /\ rec = EmptyRecord
    /\ frame = NewFrame(EmptyRecord)
    /\ pc = "new"
    /\ calls = 0

NextScenario == ChopRead(ScenarioRecords) \/ Step

SpecScenario == InitScenario /\ [][NextScenario]_vars

\* consume_cigar on its own: an operation of any kind and of length
\* 0..MaxLen is the token at hand, the local counters are zero as they are
\* at line 258, and chunk_size, the amount, is 1..MaxChunk + 1
InitConsume ==
    /\ \E amount \in 1..MaxChunk + 1 : chopper = New(amount, 0, FALSE, <<>>)
    /\ rec = EmptyRecord
    /\ \E k \in CigarKinds, n \in 0..MaxLen :
          frame = [NewFrame(EmptyRecord) EXCEPT !.current_cigar = <<Cigar(k, n)>>]
    /\ pc = "consume"
    /\ calls = 0

\* the call of consume_cigar (lines 174, 223, 258)
Consume ==
    /\ pc = "consume"
    /\ frame' = [frame EXCEPT !.cigar_consumption =
                    <<ConsumeCigar(frame.current_cigar[1],
                                   chopper.chunk_size - frame.local_query_consumed)>>]
    /\ pc' = "consumed"
    /\ UNCHANGED <<chopper, rec, calls>>

NextConsume == Consume

SpecConsume == InitConsume /\ [][NextConsume]_vars

\* chop_read on records whose sequence and CIGAR disagree
NextIllFormed == ChopRead(IllFormedRecords) \/ Step

SpecIllFormed == Init /\ [][NextIllFormed]_vars

\* ------------------------------------------------------------------ claims
\* the records chop_read has pushed so far; at "done", the records it returns
Pieces == chopper.rec_pieces_buffer

RECURSIVE SumQueryLen(_)
SumQueryLen(ps) ==
    IF ps = <<>> THEN 0 ELSE QueryLen(ps[1].cigar) + SumQueryLen(Tail(ps))

RECURSIVE SumReferenceLen(_)
SumReferenceLen(ps) ==
    IF ps = <<>> THEN 0 ELSE ReferenceLen(ps[1].cigar) + SumReferenceLen(Tail(ps))

\* the CIGAR without the clips that clip skipping takes from its end
RECURSIVE WithoutTrailingClips(_)
WithoutTrailingClips(cs) ==
    IF cs # <<>> /\ IsClip(cs[Len(cs)])
    THEN WithoutTrailingClips(SubSeq(cs, 1, Len(cs) - 1))
    ELSE cs

\* the part of the record's CIGAR that is left to chop: with clip skipping,
\* the CIGAR without the clips at its end and without a clip at its start
Body ==
    IF chopper.skip_clipped_bases
    THEN LET t == WithoutTrailingClips(rec.cigar)
         IN  IF t # <<>> /\ IsClip(t[1]) THEN Tail(t) ELSE t
    ELSE rec.cigar

\* the read bases in the clips that clip skipping removed
DroppedByClipSkipping == QueryLen(rec.cigar) - QueryLen(Body)

\* the read bases of the trailing remainder that the min_length filter dropped
DroppedByMinLength ==
    IF frame.local_query_consumed < chopper.min_length
    THEN frame.local_query_consumed ELSE 0

\* C1 (chunk-size bound): with chunk_size >= 1, every record pushed has a
\* CIGAR of query-consuming length exactly chunk_size, except possibly the
\* last record of the returned output, whose query-consuming length is in
\* [min_length, chunk_size].
C1_ChunkSizeBound ==
    chopper.chunk_size >= 1 =>
        \A i \in 1..Len(Pieces) :
            \/ QueryLen(Pieces[i].cigar) = chopper.chunk_size
            \/ /\ i = Len(Pieces)
               /\ pc = "done"
               /\ chopper.min_length <= QueryLen(Pieces[i].cigar)
               /\ QueryLen(Pieces[i].cigar) <= chopper.chunk_size

\* a returned output of full chunks followed by a shorter last record
C1_Witness ==
    /\ pc = "done"
    /\ chopper.chunk_size >= 2
    /\ Len(Pieces) >= 2
    /\ QueryLen(Pieces[Len(Pieces)].cigar) \in 1..(chopper.chunk_size - 1)
    /\ \A i \in 1..(Len(Pieces) - 1) : QueryLen(Pieces[i].cigar) = chopper.chunk_size

\* C2 (sequence/CIGAR consistency), as claimed: every record pushed carries
\* the bases and qualities [query_offset, query_offset + query-consuming
\* length of its CIGAR) of the original, where query_offset moves on by that
\* length from one record to the next (from whatever offset the first record
\* starts at): each record has as many bases as its CIGAR covers.
C2_SequenceCigarConsistency ==
    \E first_offset \in 0..Len(rec.seq) :
        \A i \in 1..Len(Pieces) :
            LET from == first_offset + SumQueryLen(SubSeq(Pieces, 1, i - 1))
                to == from + QueryLen(Pieces[i].cigar)
            IN  /\ Len(Pieces[i].seq) = QueryLen(Pieces[i].cigar)
                /\ Len(Pieces[i].qual) = QueryLen(Pieces[i].cigar)
                /\ to <= Len(rec.seq)
                /\ Pieces[i].seq = Slice(rec.seq, from, to)
                /\ Pieces[i].qual = Slice(rec.qual, from, to)

\* C3 (position monotonicity): the positions of the records pushed are
\* non-decreasing, and each is the position of the original plus the
\* reference-consuming CIGAR lengths of the records pushed before it.
C3_PositionMonotonicity ==
    \A i \in 1..Len(Pieces) :
        /\ Pieces[i].pos = rec.pos + SumReferenceLen(SubSeq(Pieces, 1, i - 1))
        /\ i > 1 => Pieces[i - 1].pos <= Pieces[i].pos

\* an output in which a deletion moved a later record and in which two
\* records share a position
C3_Witness ==
    /\ pc = "done"
    /\ Len(Pieces) >= 3
    /\ \E i \in 1..Len(Pieces) : \E j \in 1..Len(Pieces[i].cigar) :
           Pieces[i].cigar[j].op = "Del"
    /\ \E i \in 2..Len(Pieces) : Pieces[i].pos > Pieces[i - 1].pos
    /\ \E i \in 2..Len(Pieces) : Pieces[i].pos = Pieces[i - 1].pos

\* C4 (length conservation): when chop_read returns, the query-consuming
\* CIGAR lengths of the returned records, plus the bases of the clips removed
\* by clip skipping, plus the bases of a trailing remainder dropped by the
\* min_length filter, add up to the sequence length of the record.
C4_LengthConservation ==
    pc = "done" =>
        SumQueryLen(Pieces) + DroppedByClipSkipping + DroppedByMinLength
            = Len(rec.seq)

\* a return where a clip was skipped, a remainder dropped and a record pushed
C4_Witness ==
    /\ pc = "done"
    /\ Len(Pieces) >= 1
    /\ DroppedByClipSkipping > 0
    /\ DroppedByMinLength > 0

\* C5 (idempotent no-op), as claimed, for min_length <= sequence length
\* (where the min_length filter drops nothing): with chunk_size >= 1,
\* chunk_size >= the sequence length and no clip skipping, chop_read returns
\* exactly one record, equal to the input but for the name, which is the
\* name of the input followed by "-0".
C5_IdempotentNoOp ==
    ( /\ pc = "done"
      /\ ~chopper.skip_clipped_bases
      /\ chopper.chunk_size >= 1
      /\ chopper.chunk_size >= Len(rec.seq)
      /\ chopper.min_length <= Len(rec.seq) )
    => /\ Len(Pieces) = 1
       /\ Pieces[1].qname = rec.qname \o <<"-", "0">>
       /\ Pieces[1].cigar = rec.cigar
       /\ Pieces[1].seq = rec.seq
       /\ Pieces[1].qual = rec.qual
       /\ Pieces[1].pos = rec.pos
       /\ \A fld \in {"flags", "tid", "mapq", "mtid", "mpos", "insert_size"} :
              Pieces[1][fld] = rec[fld]

\* C6 (leading clip skipping), as claimed: with chunk_size >= 1 and clip
\* skipping, a SoftClip of length k at the start of the CIGAR moves
\* global_query_offset to k before the first record is pushed and none of
\* its k bases is in a pushed record; a HardClip at the start leaves the
\* offset at 0.
C6_LeadingClipSkipping ==
    LET t == frame.current_cigar
        k == IF t[1].op = "SoftClip" THEN t[1].len ELSE 0
    IN  ( /\ pc \notin {"new", "first"}
          /\ chopper.chunk_size >= 1
          /\ chopper.skip_clipped_bases
          /\ t # <<>>
          /\ IsClip(t[1]) )
        => /\ Len(Pieces) = 0 => frame.global_query_offset = k
           /\ \A i \in 1..Len(Pieces) : \A j \in 1..Len(Pieces[i].seq) :
                  Pieces[i].seq[j] > k

\* C7 (no fault on well-formed input), as claimed: with chunk_size >= 1 and a
\* record whose sequence is as long as its CIGAR says, no call of
\* add_chunk_record takes a slice whose end is below its start: chop_read
\* does not panic.
C7_NoFaultOnWellFormedInput ==
    (chopper.chunk_size >= 1 /\ Len(rec.seq) = QueryLen(rec.cigar)) => pc # "panic"

DigitValue(d) == CHOOSE v \in 0..9 : Digit[v + 1] = d

\* the number a string of decimal digits writes
RECURSIVE ParseDecimal(_)
ParseDecimal(ds) ==
    IF ds = <<>> THEN 0
    ELSE 10 * ParseDecimal(SubSeq(ds, 1, Len(ds) - 1)) + DigitValue(ds[Len(ds)])

\* the part of the name of a piece after the name of the original and the dash
Suffix(p) == SubSeq(p.qname, Len(rec.qname) + 2, Len(p.qname))

\* C8 (fragment identifiers): the k-th record pushed (k = 0, 1, ...) is named
\* with the name of the original, one dash, and k in decimal without padding;
\* the names are pairwise distinct.
C8_FragmentIdentifiers ==
    /\ \A i \in 1..Len(Pieces) :
          LET q == Pieces[i].qname
              n == Len(rec.qname)
          IN  /\ Len(q) >= n + 2
              /\ SubSeq(q, 1, n) = rec.qname
              /\ q[n + 1] = "-"
              /\ \A j \in 1..Len(Suffix(Pieces[i])) :
                    \E v \in 0..9 : Digit[v + 1] = Suffix(Pieces[i])[j]
              /\ Len(Suffix(Pieces[i])) > 1 => Suffix(Pieces[i])[1] # "0"
              /\ ParseDecimal(Suffix(Pieces[i])) = i - 1
    /\ \A i, j \in 1..Len(Pieces) : i # j => Pieces[i].qname # Pieces[j].qname

\* an output of more than ten records: the last names have two digits
C8_Witness ==
    /\ pc = "done"
    /\ Len(Pieces) > 10
    /\ Len(Suffix(Pieces[Len(Pieces)])) = 2

\* C9 (configuration errors), as claimed: chop_read is never run on a chopper
\* whose chunk_size is 0.
C9_ChunkSizeZeroRejected ==
    pc # "new" => chopper.chunk_size >= 1

\* chop_read from where m is to its end (its return or its panic); with
\* chunk_size = 0, to where the model stops following it
RECURSIVE RunChopRead(_)
RunChopRead(m) ==
    CASE m.pc = "first" -> RunChopRead(FirstToken(m))
      [] m.pc = "for" ->
            IF m.frame.cigar_iter < Len(m.frame.current_cigar)
            THEN RunChopRead(NextToken(m))
            ELSE RunChopRead(LastChunk(m))
      [] m.pc \in {"first_while", "for_while"} ->
            IF m.chopper.chunk_size = 0 /\ Len(m.chopper.rec_pieces_buffer) >= MaxSpin
            THEN m
            ELSE RunChopRead(PlaceRemainder(m))
      [] OTHER -> m

\* what a chopper constructed for this call alone, with the configuration of
\* the chopper at work, makes of the record
FreshRun ==
    RunChopRead(EnterChopRead(
        New(chopper.chunk_size, chopper.min_length, chopper.skip_clipped_bases,
            chopper.read_group),
        rec))

\* C10 (no cross-call state leakage): whatever was chopped before on this
\* chopper, a call of chop_read ends as it does on a freshly constructed
\* chopper with the same configuration and the same record: the same records
\* returned (names from "-0"), or a panic in both.
C10_NoCrossCallLeakage ==
    pc \in {"done", "panic"} =>
        /\ pc = FreshRun.pc
        /\ pc = "done" => Pieces = FreshRun.chopper.rec_pieces_buffer

\* the return of a second call that pushed one record; the call before it
\* pushed at least one (with min_length = 0 the last chunk is always pushed)
C10_Witness ==
    /\ pc = "done"
    /\ calls >= 2
    /\ chopper.min_length = 0
    /\ chopper.read_group # <<>>
    /\ Len(Pieces) = 1
    /\ Pieces[1].qname = rec.qname \o <<"-", "0">>

\* C11 (invariant violations are surfaced): when the sequence of a record is
\* not as long as its CIGAR says, chop_read ends in a panic, and it never
\* holds a fragment whose sequence is shorter than the fragment's CIGAR says.
C11_InvariantViolationsSurfaced ==
    (chopper.chunk_size >= 1 /\ pc # "new" /\ Len(rec.seq) # QueryLen(rec.cigar)) =>
        /\ pc # "done"
        /\ \A i \in 1..Len(Pieces) : Len(Pieces[i].seq) >= QueryLen(Pieces[i].cigar)

\* the two fragments of the scenario, the second at second_pos: 4M5D1M over
\* AGTCG at the record's position, then 1M4I over ATGCA
ScenarioFragments(second_pos) ==
    /\ Len(Pieces) = 2
    /\ Pieces[1].cigar = <<Cigar("Match", 4), Cigar("Del", 5), Cigar("Match", 1)>>
    /\ Pieces[1].seq = <<"A", "G", "T", "C", "G">>
    /\ Pieces[1].pos = rec.pos
    /\ Pieces[2].cigar = <<Cigar("Match", 1), Cigar("Ins", 4)>>
    /\ Pieces[2].seq = <<"A", "T", "G", "C", "A">>
    /\ Pieces[2].pos = second_pos

\* C12 as the spec states it (scenario): chopping CIGAR 4M 5D 2M 4I 3S over
\* AGTCGATGCATGC at position P with chunk_size = 5, min_length = 5 and no clip
\* skipping returns 4M5D1M over AGTCG at P, then 1M4I over ATGCA at P + 5.
C12_ScenarioSecondAtPlus5 ==
    pc = "done" => ScenarioFragments(rec.pos + 5)

\* C12 (scenario), amended: the same two fragments and the trailing 3S (TGC)
\* dropped, the second fragment at P + 10: the first fragment covers
\* 4 + 5 + 1 = 10 reference bases.
C12_ScenarioSecondAtPlus10 ==
    pc = "done" => ScenarioFragments(rec.pos + 10)

\* chop_read has returned the fragments of the scenario record at a position
\* other than 0
C12_Witness ==
    /\ pc = "done"
    /\ rec.cigar = ScenarioCigar
    /\ rec.pos = MaxPos
    /\ Len(Pieces) = 2
    /\ Pieces[2].pos = MaxPos + 10

\* lines 174 and 223: the amount chop_read passes to consume_cigar for the
\* next token, from the counters as they are now
Room == chopper.chunk_size - frame.local_query_consumed

\* chop_read is about to take the next token from the iterator and to call
\* consume_cigar with it (lines 173-174 and 222-223)
TokenPending ==
    \/ pc = "first" /\ frame.current_cigar # <<>>
    \/ pc = "for" /\ frame.cigar_iter < Len(frame.current_cigar)

\* C13 (room is at least 1): with chunk_size >= 1, every call of consume_cigar
\* by chop_read is made with amount >= 1: the call for the next token when
\* one is pending, and the call for a remainder, made right after the local
\* counters were zeroed (amount = chunk_size).
C13_RoomAtLeastOne ==
    chopper.chunk_size >= 1 =>
        /\ TokenPending => Room >= 1
        /\ pc \in {"first_while", "for_while"} => chopper.chunk_size - 0 >= 1

\* what a chopper with the configuration of the chopper at work, but
\* min_length = 0, makes of the record
MinLengthZeroRun ==
    RunChopRead(EnterChopRead(
        New(chopper.chunk_size, 0, chopper.skip_clipped_bases, chopper.read_group),
        rec))

\* ps without its last fragment when that fragment covers fewer than
\* min_length read bases
WithoutShortLast(ps, min_length) ==
    IF ps # <<>> /\ QueryLen(ps[Len(ps)].cigar) < min_length
    THEN SubSeq(ps, 1, Len(ps) - 1)
    ELSE ps

\* C14 (min_length affects only the final fragment): when chop_read returns
\* with min_length m, chop_read with min_length = 0 returns as well, and the
\* records returned for m are those returned for 0, without the last one
\* exactly when it covers fewer than m read bases; a record of usable length
\* 0 gives no fragment when m > 0.
C14_MinLengthOnlyLastFragment ==
    (pc = "done" /\ chopper.chunk_size >= 1) =>
        /\ MinLengthZeroRun.pc = "done"
        /\ Pieces = WithoutShortLast(MinLengthZeroRun.chopper.rec_pieces_buffer,
                                     chopper.min_length)
        /\ (chopper.min_length > 0 /\ QueryLen(frame.current_cigar) = 0) => Pieces = <<>>

\* the length of the right part of a split, 0 when there is none
RightLen(cc) == IF cc.right_c = <<>> THEN 0 ELSE cc.right_c[1].len

\* C15 (CIGAR splitting rules): for an operation of length len and an amount
\* room >= 1, consume_cigar returns, for Match/Equal/Diff, left of the same
\* kind and length min(len, room), right of the same kind and length
\* len - room exactly when len > room, and query and reference consumed
\* min(len, room); for Ins/SoftClip the same with reference consumed 0; for
\* Del/RefSkip the operation unsplit, query consumed 0, reference consumed
\* len; for HardClip/Pad the operation unsplit, both 0. Left length plus
\* right length is len.
C15_CigarSplittingRules ==
    (pc = "consumed" /\ chopper.chunk_size >= 1) =>
        LET c    == frame.current_cigar[1]
            room == chopper.chunk_size
            cc   == frame.cigar_consumption[1]
            split ==
                /\ cc.left_c = Cigar(c.op, Min(c.len, room))
                /\ cc.right_c = IF c.len > room THEN <<Cigar(c.op, c.len - room)>> ELSE <<>>
                /\ cc.query_offset = Min(c.len, room)
            unsplit ==
                /\ cc.left_c = c
                /\ cc.right_c = <<>>
                /\ cc.query_offset = 0
        IN  /\ c.op \in {"Match", "Equal", "Diff"} => split /\ cc.ref_offset = Min(c.len, room)
            /\ c.op \in {"Ins", "SoftClip"} => split /\ cc.ref_offset = 0
            /\ c.op \in {"Del", "RefSkip"} => unsplit /\ cc.ref_offset = c.len
            /\ c.op \in {"HardClip", "Pad"} => unsplit /\ cc.ref_offset = 0
            /\ cc.left_c.len + RightLen(cc) = c.len

\* consume_cigar has split an Ins longer than the amount
C15_Witness ==
    /\ pc = "consumed"
    /\ frame.current_cigar[1] = Cigar("Ins", MaxLen)
    /\ chopper.chunk_size = 1
    /\ frame.cigar_consumption[1] =
           SplitCigarBuf(Cigar("Ins", 1), Some(Cigar("Ins", MaxLen - 1)), 1, 0)

\* the remainder of the split token the loop at lines 245-262 (200-217) has
\* still to place
Remainder == RightLen(frame.cigar_consumption[1])

\* what chop_read has left to do: the tokens the iterator still holds, each
\* weighing more than any remainder, then the remainder to place and the
\* place reached
Rank ==
    (Len(frame.current_cigar) - frame.cigar_iter) * (LongLen + 3)
    + (CASE pc \in {"first_while", "for_while"} -> Remainder + 1
         [] pc = "first" -> 2
         [] pc = "for" -> 1
         [] OTHER -> 0)

\* C16 (termination): once chop_read is entered, every step of it strictly
\* lowers what is left to do, which is never negative, so chop_read ends
\* after finitely many steps; in particular every pass of the remainder loop
\* that stays in the loop strictly shrinks the remainder.
C16_Termination ==
    [][pc # "new" =>
          /\ Rank' < Rank
          /\ Rank' >= 0
          /\ (pc \in {"first_while", "for_while"} /\ pc' = pc) => Remainder' < Remainder]_vars

\* C17 (local counter bound): with chunk_size >= 1, at every place chop_read
\* reaches, 0 <= local_query_consumed <= chunk_size, so the subtraction
\* chunk_size - local_query_consumed passed to consume_cigar does not
\* underflow.
C17_LocalCounterBound ==
    chopper.chunk_size >= 1 =>
        /\ frame.local_query_consumed >= 0
        /\ frame.local_query_consumed <= chopper.chunk_size
        /\ Room >= 0

\* the bound is met: the remainder loop has filled a chunk exactly, the chunk
\* is not pushed yet and the next token is about to be consumed
C17_Witness ==
    /\ pc = "for"
    /\ chopper.chunk_size >= 1
    /\ frame.local_query_consumed = chopper.chunk_size
    /\ Len(Pieces) >= 1
    /\ TokenPending

\* C18 (no empty fragments): for a record with a non-empty CIGAR (here: one
\* that covers at least one read base) and chunk_size >= 1, whatever
\* min_length is, no fragment chop_read pushes has an empty CIGAR or a CIGAR
\* that covers no read base, and a read of n * chunk_size bases is returned
\* as exactly n fragments.
C18_NoEmptyFragments ==
    (chopper.chunk_size >= 1 /\ pc # "new" /\ QueryLen(rec.cigar) > 0) =>
        /\ \A i \in 1..Len(Pieces) :
              /\ Pieces[i].cigar # <<>>
              /\ QueryLen(Pieces[i].cigar) > 0
        /\ (pc = "done" /\ QueryLen(rec.cigar) % chopper.chunk_size = 0) =>
              Len(Pieces) = QueryLen(rec.cigar) \div chopper.chunk_size

\* C19 (no zero-length operations): the CIGARs of the records have no
\* operation of length 0; with chunk_size >= 1, no CIGAR of a fragment pushed
\* by chop_read has an operation of length 0.
C19_NoZeroLengthOperations ==
    (chopper.chunk_size >= 1 /\ \A j \in 1..Len(rec.cigar) : rec.cigar[j].len > 0) =>
        \A i \in 1..Len(Pieces) :
            \A j \in 1..Len(Pieces[i].cigar) : Pieces[i].cigar[j].len > 0

====
